---- MODULE Spec2Model ----
(***************************************************************************)
(* Model of structlog/testing.py: the capture recorder (LogCapture), the   *)
(* capture scope (capture_logs), the echo logger (ReturnLogger) and its    *)
(* factory (ReturnLoggerFactory).                                          *)
(*                                                                         *)
(* The global configuration store (configure / get_config) and the        *)
(* processor pipeline that routes a log call through the configured chain *)
(* live in structlog/_config.py and structlog/_base.py; they are modelled  *)
(* from the specification's description of them (sections 6 and GLOSSARY). *)
(***************************************************************************)
EXTENDS Integers, Sequences, FiniteSets, TLC

\* ---------------------------------------------------------------- bounds
\* number of LogCapture objects ever constructed
MaxCaps == 2
\* nesting depth of capture scopes in one thread
MaxDepth == 2
\* number of event mappings ever allocated
MaxObjs == 2
\* number of LogCapture objects the caller constructs itself
MaxStandalone == 1
\* number of entries recorded by all recorders together
MaxEntries == 2
\* number of ReturnLoggerFactory objects ever constructed
MaxFactories == 2
\* number of factory calls recorded
MaxFactoryCalls == 2
\* number of positional arguments of an echo-logger call
MaxArgs == 2
\* number of ReturnLogger objects the caller constructs itself
MaxLoggers == 1

\* ---------------------------------------------------------------- inputs
Threads == {1, 2}
MainThread == {1}

\* processors that are not recorders; they forward the event unchanged
PlainProcs == {<<"proc", 1>>}

\* names of the logging methods of a bound logger
LogMethods == {"info", "error"}

\* the log calls made: a method name and the event mapping of the call
LogInputs ==
  {<<"info", [event |-> "a"]>>,
   <<"error", [event |-> "a", log_level |-> "custom"]>>}

\* exceptions the body of a scope may raise
Exceptions == {"ValueError", "KeyError"}

\* positional values and keyed arguments of an echo-logger call
ArgValues == {"x", "y"}
KwDicts == {<<>>, [when |-> "y"]}
ArgLists == UNION {[1..n -> ArgValues] : n \in 0..MaxArgs}

\* ------------------------------------------------------------- helpers
IsRecorder(p) == p[1] = "cap"
Recorder(c) == <<"cap", c>>

Range(s) == {s[i] : i \in 1..Len(s)}

\* event_dict[key] = value on a Python dict
SetItem(d, key, value) ==
  [k \in DOMAIN d \cup {key} |-> IF k = key THEN value ELSE d[k]]

\* chains of plain processors
PlainChains == {<<>>} \cup {<<p>> : p \in PlainProcs}

\* chains a caller can pass to configure(): plain processors and the
\* recorders in caps (the recorders the caller holds a reference to)
ChainsOver(caps) ==
  LET procs == PlainProcs \cup {Recorder(c) : c \in caps}
  IN {<<>>} \cup {<<p>> : p \in procs}
            \cup {<<p, q>> : p \in procs, q \in procs}

\* ------------------------------------------------------------ recorder
\* LogCapture.__call__(self, _, method_name, event_dict).
\* ents is self.entries (object ids), hp the heap of mappings, obj the id of
\* event_dict (0: an object that does not support item assignment).
\* faulty variant: sets log_level on every entry already recorded
LogCaptureCallAll(ents, hp, method_name, obj) ==
  IF obj \notin 1..Len(hp)
  THEN [entries |-> ents, heap |-> hp, raised |-> "TypeError"]
  ELSE [entries |-> Append(ents, obj),
        heap |-> [o \in 1..Len(hp) |->
                    IF o = obj \/ o \in Range(ents)
                    THEN SetItem(hp[o], "log_level", method_name)
                    ELSE hp[o]],
        raised |-> "DropEvent"]

\* faulty variant: records and returns instead of raising DropEvent
LogCaptureCallReturns(ents, hp, method_name, obj) ==
  IF obj \notin 1..Len(hp)
  THEN [entries |-> ents, heap |-> hp, raised |-> "TypeError"]
  ELSE [entries |-> Append(ents, obj),
        heap |-> [hp EXCEPT ![obj] = SetItem(hp[obj], "log_level", method_name)],
        raised |-> "none"]

\* faulty variant: records without setting log_level
LogCaptureCallNoLevel(ents, hp, method_name, obj) ==
  IF obj \notin 1..Len(hp)
  THEN [entries |-> ents, heap |-> hp, raised |-> "TypeError"]
  ELSE [entries |-> Append(ents, obj), heap |-> hp, raised |-> "DropEvent"]

LogCaptureCall(ents, hp, method_name, obj) ==
  IF obj \notin 1..Len(hp)
  THEN [entries |-> ents, heap |-> hp, raised |-> "TypeError"]
  ELSE [entries |-> Append(ents, obj),
        heap |-> [hp EXCEPT ![obj] = SetItem(hp[obj], "log_level", method_name)],
        raised |-> "DropEvent"]

\* ------------------------------------------------------------ pipeline
\* One log call travelling down the chain from position i.  A processor
\* that raises stops the event; an event that leaves the chain is delivered
\* to the back-end.  trace lists the processors that were invoked.
RECURSIVE RunChain(_, _, _, _, _, _, _)
RunChain(chain, i, method_name, obj, ents, hp, trace) ==
  IF i > Len(chain)
  THEN [entries |-> ents, heap |-> hp, trace |-> trace,
        delivered |-> TRUE, raised |-> "none"]
  ELSE IF IsRecorder(chain[i])
  THEN LET c == chain[i][2]
           r == LogCaptureCall(ents[c], hp, method_name, obj)
           ents1 == [ents EXCEPT ![c] = r.entries]
       IN IF r.raised = "none"
          THEN RunChain(chain, i + 1, method_name, obj, ents1, r.heap,
                        Append(trace, chain[i]))
          ELSE [entries |-> ents1, heap |-> r.heap,
                trace |-> Append(trace, chain[i]),
                delivered |-> FALSE, raised |-> r.raised]
  ELSE RunChain(chain, i + 1, method_name, obj, ents, hp,
                Append(trace, chain[i]))

\* a log call builds a fresh event mapping and sends it down the chain
ProcessEvent(chain, method_name, ev, ents, hp) ==
  RunChain(chain, 1, method_name, Len(hp) + 1, ents, Append(hp, ev), <<>>)

\* --------------------------------------------------------------- state
VARIABLES
  processors,  \* the global processor chain (get_config()["processors"])
  entries,     \* entries[c]: LogCapture c's entries, a sequence of object ids
  heap,        \* heap[o]: the mapping object o
  stack,       \* stack[t]: the capture scopes thread t is inside, outermost first
  exc,         \* exc[t]: the exception propagating in thread t, or "none"
  backend,     \* the objects delivered to the back-end
  standalone,  \* LogCapture objects constructed by the caller itself
  factories,   \* factories[f]: ReturnLoggerFactory f's _logger (0: None)
  nLoggers,    \* number of ReturnLogger objects constructed
  ret,         \* the value returned by the last echo-logger or factory call
  baseline,    \* history: the chain configured outside every scope
  origin,      \* history: origin[o], the thread and scope that logged object o
  owner,       \* history: owner[c], the thread whose scope made recorder c
  last,        \* history: the last operation, its thread and what it did
  handed       \* history: handed[f], the loggers factory f has returned

vars == <<processors, entries, heap, stack, exc, backend, standalone,
          factories, nLoggers, ret, baseline, origin, owner, last,
          handed>>

echoVars == <<factories, nLoggers, ret, handed>>
captureVars == <<processors, entries, heap, stack, exc, backend, standalone,
                 baseline, origin, owner>>

NoRet == [kind |-> "none"]

Init ==
  /\ processors \in PlainChains
  /\ entries = <<>>
  /\ heap = <<>>
  /\ stack = [t \in Threads |-> <<>>]
  /\ exc = [t \in Threads |-> "none"]
  /\ backend = <<>>
  /\ standalone = {}
  /\ factories = <<>>
  /\ nLoggers = 0
  /\ ret = NoRet
  /\ baseline = processors
  /\ origin = <<>>
  /\ owner = <<>>
  /\ last = [op |-> "init", t |-> 0]
  /\ handed = <<>>

Top(t) == stack[t][Len(stack[t])]

\* thread t is running ordinary code: no exception is propagating and no
\* scope is between reading the chain and installing its recorder
InBody(t) ==
  /\ exc[t] = "none"
  /\ IF stack[t] = <<>> THEN TRUE ELSE Top(t).pc = "active"

\* ------------------------------------------------------- capture scope
\* capture_logs, lines 63-64: construct the recorder, read the chain
Acquire(t) ==
  /\ InBody(t)
  /\ Len(stack[t]) < MaxDepth
  /\ Len(entries) < MaxCaps
  /\ entries' = Append(entries, <<>>)
  /\ stack' = [stack EXCEPT ![t] = Append(@,
                 [cap |-> Len(entries) + 1, old |-> processors,
                  pc |-> "acquired", pre |-> <<>>, calls |-> <<>>,
                  diverted |-> FALSE, reconf |-> FALSE, inner |-> 0])]
  /\ owner' = Append(owner, t)
  /\ last' = [op |-> "acquire", t |-> t]
  /\ UNCHANGED <<processors, heap, exc, backend, standalone, baseline,
                 origin>>
  /\ UNCHANGED echoVars

\* faulty variant: appends the recorder to the chain instead of replacing it
ActivateAppends(t) ==
  /\ stack[t] # <<>>
  /\ Top(t).pc = "acquired"
  /\ processors' = Append(processors, Recorder(Top(t).cap))
  /\ stack' = [stack EXCEPT ![t][Len(stack[t])] =
                 [@ EXCEPT !.pc = "active", !.pre = processors]]
  /\ last' = [op |-> "activate", t |-> t]
  /\ UNCHANGED <<entries, heap, exc, backend, standalone, baseline, origin,
                 owner>>
  /\ UNCHANGED echoVars

\* capture_logs, lines 66-67: install the recorder, yield cap.entries
Activate(t) ==
  /\ stack[t] # <<>>
  /\ Top(t).pc = "acquired"
  /\ processors' = <<Recorder(Top(t).cap)>>
  /\ stack' = [stack EXCEPT ![t][Len(stack[t])] =
                 [@ EXCEPT !.pc = "active", !.pre = processors]]
  /\ last' = [op |-> "activate", t |-> t]
  /\ UNCHANGED <<entries, heap, exc, backend, standalone, baseline, origin,
                 owner>>
  /\ UNCHANGED echoVars

\* the scope of thread t ends: the chain becomes chainAfter and the
\* exception state of the thread excAfter
LeaveScope(t, chainAfter, excAfter) ==
  /\ stack[t] # <<>>
  /\ Top(t).pc = "active"
  /\ processors' = chainAfter
  /\ exc' = [exc EXCEPT ![t] = excAfter]
  /\ stack' = [stack EXCEPT ![t] =
       LET rest == SubSeq(@, 1, Len(@) - 1)
       IN IF rest = <<>> THEN rest
          ELSE [rest EXCEPT ![Len(rest)].inner = Top(t).cap]]
  /\ last' =
       [op |-> "exit", t |-> t, cap |-> Top(t).cap, old |-> Top(t).old, pre |-> Top(t).pre,
        raised |-> exc[t], depth |-> Len(stack[t]), inner |-> Top(t).inner,
        reconf |-> Top(t).reconf, ncalls |-> Len(Top(t).calls),
        clean |-> IF Len(stack[t]) > 1
                  THEN ~stack[t][Len(stack[t]) - 1].reconf ELSE FALSE]
  /\ UNCHANGED <<entries, heap, backend, standalone, baseline, origin, owner>>
  /\ UNCHANGED echoVars

\* faulty variant: no finally clause, a raising body skips the restore
ReleaseUnlessRaised(t) ==
  LeaveScope(t, IF exc[t] = "none" THEN Top(t).old ELSE processors, exc[t])

\* faulty variant: the scope swallows the exception of its body
ReleaseSwallows(t) == LeaveScope(t, Top(t).old, "none")

\* faulty variant: the exit empties the chain instead of restoring it
ReleaseResets(t) == LeaveScope(t, <<>>, exc[t])

\* capture_logs, lines 68-69: the finally clause; it runs when the body
\* ends and when it raises, and lets a raised exception continue
Release(t) == LeaveScope(t, Top(t).old, exc[t])

\* ------------------------------------------------- what a body can do
\* a log call: the pipeline reads the global chain and runs the event
\* through it
Log(t, method_name, ev) ==
  /\ InBody(t)
  /\ Len(heap) < MaxObjs
  /\ LET r == ProcessEvent(processors, method_name, ev, entries, heap)
     IN /\ entries' = r.entries
        /\ heap' = r.heap
        /\ backend' = IF r.delivered THEN Append(backend, Len(r.heap))
                      ELSE backend
        /\ last' = [op |-> "log", t |-> t, chain |-> processors, trace |-> r.trace,
                       delivered |-> r.delivered, raised |-> r.raised,
                       obj |-> Len(r.heap)]
  /\ stack' = [stack EXCEPT ![t] =
       [i \in 1..Len(@) |->
          [@[i] EXCEPT !.calls = Append(@, [m |-> method_name, ev |-> ev]),
                       !.diverted = @ \/ processors # <<Recorder(stack[t][i].cap)>>]]]
  /\ origin' = Append(origin,
       [t |-> t, cap |-> IF stack[t] = <<>> THEN 0 ELSE Top(t).cap])
  /\ UNCHANGED <<processors, exc, standalone, baseline, owner>>
  /\ UNCHANGED echoVars

\* configure(processors=chain) called by the body or between scopes
Configure(t, chain) ==
  /\ InBody(t)
  /\ chain # processors
  /\ processors' = chain
  /\ stack' = [stack EXCEPT ![t] =
       IF @ = <<>> THEN @ ELSE [@ EXCEPT ![Len(@)].reconf = TRUE]]
  /\ baseline' = IF \A u \in Threads : stack[u] = <<>> THEN chain ELSE baseline
  /\ last' = [op |-> "configure", t |-> t]
  /\ UNCHANGED <<entries, heap, exc, backend, standalone, origin, owner>>
  /\ UNCHANGED echoVars

\* the body of the innermost scope raises e
Raise(t, e) ==
  /\ exc[t] = "none"
  /\ stack[t] # <<>>
  /\ Top(t).pc = "active"
  /\ exc' = [exc EXCEPT ![t] = e]
  /\ last' = [op |-> "raise", t |-> t]
  /\ UNCHANGED <<processors, entries, heap, stack, backend, standalone,
                 baseline, origin, owner>>
  /\ UNCHANGED echoVars

\* the code around the propagating exception catches it
Catch(t) ==
  /\ exc[t] # "none"
  /\ exc' = [exc EXCEPT ![t] = "none"]
  /\ last' = [op |-> "catch", t |-> t]
  /\ UNCHANGED <<processors, entries, heap, stack, backend, standalone,
                 baseline, origin, owner>>
  /\ UNCHANGED echoVars

\* ------------------------------------------- recorder used on its own
\* the number of entries all recorders hold
TotalEntries ==
  Cardinality(UNION {{<<c, i>> : i \in 1..Len(entries[c])} :
                       c \in 1..Len(entries)})

\* LogCapture(), lines 43-44, called by the user's own code
NewLogCapture ==
  /\ Len(entries) < MaxCaps
  /\ Cardinality(standalone) < MaxStandalone
  /\ entries' = Append(entries, <<>>)
  /\ standalone' = standalone \cup {Len(entries) + 1}
  /\ owner' = Append(owner, 0)
  /\ last' = [op |-> "new", t |-> 0]
  /\ UNCHANGED <<processors, heap, stack, exc, backend, baseline, origin>>
  /\ UNCHANGED echoVars

\* cap(None, method_name, obj) on an object the caller already holds
\* (obj = 0: an object without item assignment)
Invoke(c, method_name, obj) ==
  /\ TotalEntries < MaxEntries
  /\ LET r == LogCaptureCall(entries[c], heap, method_name, obj)
     IN /\ entries' = [entries EXCEPT ![c] = r.entries]
        /\ heap' = r.heap
        /\ last' = [op |-> "invoke", t |-> 0, cap |-> c, obj |-> obj, m |-> method_name,
                       before |-> Len(entries[c]), raised |-> r.raised]
  /\ UNCHANGED <<processors, stack, exc, backend, standalone, baseline,
                 origin, owner>>
  /\ UNCHANGED echoVars

\* cap(None, method_name, {...}) on a mapping built for this call
InvokeFresh(c, method_name, ev) ==
  /\ TotalEntries < MaxEntries
  /\ Len(heap) < MaxObjs
  /\ LET obj == Len(heap) + 1
         r == LogCaptureCall(entries[c], Append(heap, ev), method_name, obj)
     IN /\ entries' = [entries EXCEPT ![c] = r.entries]
        /\ heap' = r.heap
        /\ last' = [op |-> "invoke", t |-> 0, cap |-> c, obj |-> obj, m |-> method_name,
                       before |-> Len(entries[c]), raised |-> r.raised]
  /\ origin' = Append(origin, [t |-> 0, cap |-> 0])
  /\ UNCHANGED <<processors, stack, exc, backend, standalone, baseline, owner>>
  /\ UNCHANGED echoVars

\* --------------------------------------------------------- echo logger
ReturnLoggerMethods ==
  {"msg", "log", "debug", "info", "warn", "warning",
   "fatal", "failure", "err", "error", "critical", "exception"}

\* faulty variant: no special case for a single positional argument
msgAlwaysPair(args, kw) == [single |-> FALSE, val |-> <<args, kw>>]

\* ReturnLogger.msg(*args, **kw)
msg(args, kw) ==
  IF Len(args) = 1 /\ DOMAIN kw = {}
  THEN [single |-> TRUE, val |-> args[1]]
  ELSE [single |-> FALSE, val |-> <<args, kw>>]

\* the class attributes of ReturnLogger: every name is bound to msg
Alias == [m \in ReturnLoggerMethods |-> "msg"]

CallMethod(m, args, kw) == CASE Alias[m] = "msg" -> msg(args, kw)

\* ReturnLogger(), lines 90-117, constructed by the caller itself as in the
\* class docstring; the class has no __init__ and the object no fields
NewReturnLogger ==
  /\ nLoggers - Len(factories) < MaxLoggers
  /\ nLoggers' = nLoggers + 1
  /\ last' = [op |-> "newlogger", t |-> 0]
  /\ UNCHANGED <<factories, ret, handed>>
  /\ UNCHANGED captureVars

\* faulty variant: the factory starts without a logger
NewFactoryLazy ==
  /\ Len(factories) < MaxFactories
  /\ factories' = Append(factories, 0)
  /\ handed' = Append(handed, <<>>)
  /\ last' = [op |-> "newfactory", t |-> 0]
  /\ UNCHANGED <<nLoggers, ret>>
  /\ UNCHANGED captureVars

\* ReturnLoggerFactory(), lines 83-84
NewFactory ==
  /\ Len(factories) < MaxFactories
  /\ nLoggers' = nLoggers + 1
  /\ factories' = Append(factories, nLoggers + 1)
  /\ handed' = Append(handed, <<>>)
  /\ last' = [op |-> "newfactory", t |-> 0]
  /\ UNCHANGED ret
  /\ UNCHANGED captureVars

\* faulty variant: every call constructs a new logger
FactoryCallFresh(f, args) ==
  /\ Len(handed[f]) < MaxFactoryCalls
  /\ nLoggers' = nLoggers + 1
  /\ factories' = [factories EXCEPT ![f] = nLoggers + 1]
  /\ ret' = [kind |-> "logger", f |-> f, id |-> nLoggers + 1]
  /\ handed' = [handed EXCEPT ![f] = Append(@, nLoggers + 1)]
  /\ last' = [op |-> "factorycall", t |-> 0]
  /\ UNCHANGED captureVars

\* ReturnLoggerFactory.__call__(*args), lines 86-87
FactoryCall(f, args) ==
  /\ Len(handed[f]) < MaxFactoryCalls
  /\ ret' = [kind |-> "logger", f |-> f, id |-> factories[f]]
  /\ handed' = [handed EXCEPT ![f] = Append(@, factories[f])]
  /\ last' = [op |-> "factorycall", t |-> 0]
  /\ UNCHANGED <<factories, nLoggers>>
  /\ UNCHANGED captureVars

\* logger.m(*args, **kw) on an echo logger that exists, whether a factory
\* made it or the caller constructed it with ReturnLogger()
EchoCall(m, args, kw) ==
  /\ nLoggers > 0
  /\ ret' = [kind |-> "value", m |-> m, args |-> args, kw |-> kw,
             value |-> CallMethod(m, args, kw)]
  /\ last' = [op |-> "echo", t |-> 0]
  /\ UNCHANGED <<factories, nLoggers, handed>>
  /\ UNCHANGED captureVars

\* ------------------------------------------------------ specifications
ScopeNext(T) ==
  \/ \E t \in T : Acquire(t)
  \/ \E t \in T : Activate(t)
  \/ \E t \in T : Release(t)
  \/ \E t \in T, call \in LogInputs : Log(t, call[1], call[2])
  \/ \E t \in T, chain \in ChainsOver(standalone) : Configure(t, chain)
  \/ \E t \in T, e \in Exceptions : Raise(t, e)
  \/ \E t \in T : Catch(t)

\* one thread using capture scopes, nested or one after the other
Next == ScopeNext(MainThread)

Spec == Init /\ [][Next]_vars

\* two threads, each using capture scopes without nesting
NextThreads ==
  \/ \E t \in Threads : stack[t] = <<>> /\ Acquire(t)
  \/ \E t \in Threads : Activate(t)
  \/ \E t \in Threads : Release(t)
  \/ \E t \in Threads, call \in LogInputs : Log(t, call[1], call[2])

SpecThreads == Init /\ [][NextThreads]_vars

\* a caller that constructs recorders itself, configures them into the
\* chain, logs, and invokes them directly
NextRecorder ==
  \/ NewLogCapture
  \/ \E chain \in ChainsOver(standalone) : Configure(1, chain)
  \/ \E call \in LogInputs : Log(1, call[1], call[2])
  \/ \E c \in standalone, m \in LogMethods, obj \in 0..Len(heap) :
       Invoke(c, m, obj)
  \/ \E c \in standalone, call \in LogInputs : InvokeFresh(c, call[1], call[2])

SpecRecorder == Init /\ [][NextRecorder]_vars

\* echo loggers, constructed directly or by a factory, and calls of their
\* methods
NextEcho ==
  \/ NewReturnLogger
  \/ NewFactory
  \/ \E m \in ReturnLoggerMethods, args \in ArgLists, kw \in KwDicts :
       EchoCall(m, args, kw)

SpecEcho == Init /\ [][NextEcho]_vars

\* echo-logger factories and calls of them, next to loggers the caller
\* constructs itself
NextFactory ==
  \/ NewReturnLogger
  \/ NewFactory
  \/ \E f \in 1..Len(factories), args \in ArgLists : FactoryCall(f, args)

SpecFactory == Init /\ [][NextFactory]_vars

\* -------------------------------------------------------------- claims
Proc1 == <<"proc", 1>>

\* number of positions of sequence q that hold x
Count(q, x) == Cardinality({i \in 1..Len(q) : q[i] = x})

\* C1: when a capture scope has just exited (whatever its body did: log,
\* configure, raise), the global chain is the chain get_config() returned at
\* scope entry, which is the chain that was configured just before the
\* recorder was installed, and the scope's recorder is not in it.
C1_ChainRestored ==
  last.op = "exit" =>
    /\ processors = last.old
    /\ last.old = last.pre
    /\ Recorder(last.cap) \notin Range(processors)

C1_Witness ==
  /\ last.op = "exit"
  /\ last.reconf
  /\ last.ncalls > 0
  /\ last.raised # "none"
  /\ last.old = <<Proc1>>
  /\ processors = <<Proc1>>

\* the entry of object o is the event of call: the call's fields, with
\* log_level set to the call's method name
EntryOf(o, call) ==
  /\ DOMAIN heap[o] = DOMAIN call.ev \cup {"log_level"}
  /\ heap[o]["log_level"] = call.m
  /\ \A k \in DOMAIN call.ev \ {"log_level"} : heap[o][k] = call.ev[k]

\* the sequence yielded by scope fr holds exactly the log calls made in fr
Mirrors(fr) ==
  /\ Len(entries[fr.cap]) = Len(fr.calls)
  /\ \A k \in 1..Len(fr.calls) : EntryOf(entries[fr.cap][k], fr.calls[k])

\* C2 as stated: in every active scope, the yielded sequence has one entry
\* per log call made so far in the scope, in call order, each with the
\* call's fields and log_level equal to the method name.
C2_Original ==
  \A t \in MainThread : \A i \in 1..Len(stack[t]) :
    stack[t][i].pc = "active" => Mirrors(stack[t][i])

\* C2 amended: the same, for a scope whose recorder was the installed
\* chain at each log call made so far in the scope (the body did not
\* replace the chain and no nested scope was active at a call).
C2_LiveSequence ==
  \A t \in MainThread : \A i \in 1..Len(stack[t]) :
    (stack[t][i].pc = "active" /\ ~stack[t][i].diverted)
      => Mirrors(stack[t][i])

C2_Witness ==
  /\ stack[1] # <<>>
  /\ Top(1).pc = "active"
  /\ ~Top(1).diverted
  /\ Len(Top(1).calls) = 2
  /\ Top(1).calls[1].m # Top(1).calls[2].m
  /\ "log_level" \in DOMAIN Top(1).calls[2].ev
  /\ Len(entries[Top(1).cap]) = 2

\* C3: when a scope has just exited because its body raised E, the thread
\* is still propagating that same E and the chain is already the one read
\* at scope entry.
C3_ExceptionPropagates ==
  (last.op = "exit" /\ last.raised # "none") =>
    /\ exc[last.t] = last.raised
    /\ processors = last.old

C3_Witness ==
  /\ last.op = "exit"
  /\ last.raised = "KeyError"
  /\ exc[1] = "KeyError"
  /\ last.depth = 2
  /\ processors = <<Recorder(Top(1).cap)>>

\* C4: a recorder invocation that records appends the event once and ends
\* with DropEvent; in a log call, a recorder that is invoked is the last
\* processor invoked, and the event does not reach the back-end.
C4_RecorderStops ==
  /\ (last.op = "invoke" /\ Len(entries[last.cap]) > last.before) =>
       /\ last.raised = "DropEvent"
       /\ Len(entries[last.cap]) = last.before + 1
       /\ entries[last.cap][last.before + 1] = last.obj
  /\ last.op = "log" =>
       \A i \in 1..Len(last.trace) :
         IsRecorder(last.trace[i]) =>
           /\ i = Len(last.trace)
           /\ last.raised = "DropEvent"
           /\ ~last.delivered
           /\ last.obj \notin Range(backend)
           /\ Count(entries[last.trace[i][2]], last.obj) = 1

C4_Witness ==
  /\ last.op = "log"
  /\ \E c \in standalone :
       /\ last.chain = <<Recorder(c), Proc1>>
       /\ last.trace = <<Recorder(c)>>
       /\ last.obj \in Range(entries[c])

\* the result the echo logger must give for args and kw
C5_Expected(value, args, kw) ==
  IF Len(args) = 1 /\ DOMAIN kw = {}
  THEN value.single /\ value.val = args[1]
  ELSE ~value.single /\ value.val = <<args, kw>>

\* C5: every method of the echo logger returns args[0] for one positional
\* argument and no keyed argument, the pair (args, kw) otherwise, ((), {})
\* for no arguments; and the call changes no state.
C5_EchoReturns ==
  /\ [](last.op = "echo" =>
          /\ C5_Expected(ret.value, ret.args, ret.kw)
          /\ (ret.args = <<>> /\ DOMAIN ret.kw = {}) =>
               (~ret.value.single /\ ret.value.val = << <<>>, <<>> >>))
  /\ [][last'.op = "echo" =>
          UNCHANGED <<factories, nLoggers, handed, captureVars>>]_vars

C5_Witness ==
  /\ last.op = "echo"
  /\ factories = <<>>
  /\ nLoggers = 1
  /\ ret.m = "exception"
  /\ ret.args = <<"x">>
  /\ DOMAIN ret.kw = {}
  /\ ret.value.single
  /\ ret.value.val = "x"

\* C6: all loggers one factory has returned are the same instance, the
\* one the factory holds, and the held instance is never replaced.
C6_SameInstance ==
  /\ [](\A f \in 1..Len(factories) : \A i \in 1..Len(handed[f]) :
          handed[f][i] = handed[f][1] /\ handed[f][i] = factories[f])
  /\ [][\A f \in 1..Len(factories) : factories'[f] = factories[f]]_vars

C6_Witness ==
  /\ Len(factories) = 2
  /\ factories[1] # factories[2]
  /\ Len(handed[1]) >= 2
  /\ Len(handed[2]) >= 1
  /\ handed[1][1] = handed[1][2]

\* C7 as stated: a factory that has not been called yet holds no logger.
C7_Original ==
  \A f \in 1..Len(factories) : handed[f] = <<>> => factories[f] = 0

\* C7 amended: the factory's single logger is constructed when the factory
\* is constructed; every factory holds a constructed logger before its
\* first call, and a call of the factory constructs none and keeps the one
\* it holds.
C7_EagerInstance ==
  /\ [](\A f \in 1..Len(factories) : factories[f] \in 1..nLoggers)
  /\ [][last'.op = "factorycall" =>
          (nLoggers' = nLoggers /\ factories' = factories)]_vars

C7_Witness ==
  /\ Len(factories) = 2
  /\ handed[1] = <<>>
  /\ factories[1] \in 1..nLoggers
  /\ Len(handed[2]) = 2
  /\ handed[2][1] = factories[2]
  /\ nLoggers = 3

\* the mapping object the last step passed to a recorder (0: none)
StepObj == IF last.op \in {"invoke", "log"} THEN last.obj ELSE 0

\* C8 as stated: no step changes the fields of an entry that is already in
\* a recorder's sequence.
C8_Original ==
  [][\A c \in 1..Len(entries) : \A i \in 1..Len(entries[c]) :
       heap'[entries[c][i]] = heap[entries[c][i]]]_vars

\* C8 amended: an invocation sets log_level on the mapping it is passed and
\* appends it; an entry already in a sequence keeps its fields and its
\* place in every later invocation that is passed a different mapping
\* object.
C8_EntriesStable ==
  [][/\ \A c \in 1..Len(entries) : \A i \in 1..Len(entries[c]) :
          /\ entries'[c][i] = entries[c][i]
          /\ entries[c][i] # StepObj' =>
               heap'[entries[c][i]] = heap[entries[c][i]]
     /\ (last'.op = "invoke" /\ last'.raised = "DropEvent") =>
          heap'[last'.obj]["log_level"] = last'.m]_vars

C8_Witness ==
  /\ last.op = "invoke"
  /\ \E c \in standalone :
       /\ Len(entries[c]) = 2
       /\ entries[c][1] # entries[c][2]
       /\ heap[entries[c][1]]["log_level"] = "info"
       /\ heap[entries[c][2]]["log_level"] = "error"

Quiescent == \A t \in Threads : stack[t] = <<>>

\* C9: with two threads, when every scope has exited the chain is either
\* the chain configured before the scopes or the singleton chain of an
\* exited scope's recorder (reached, see the witness); and every logged
\* event is in exactly one place, a recorder's sequence or the back-end,
\* which need not be the sequence of the scope that logged it.
C9_ThreadsUnsafe ==
  /\ (Quiescent /\ processors # baseline) =>
       \E c \in 1..Len(entries) : processors = <<Recorder(c)>>
  /\ \A o \in 1..Len(heap) :
       Cardinality({c \in 1..Len(entries) : o \in Range(entries[c])})
         + Count(backend, o) = 1

C9_Witness ==
  /\ Quiescent
  /\ Len(entries) = 2
  /\ owner[1] # owner[2]
  /\ processors # baseline
  /\ \E o \in 1..Len(heap) : \E c \in 1..Len(entries) :
       /\ origin[o].cap \notin {0, c}
       /\ origin[o].t # owner[c]
       /\ o \in Range(entries[c])

\* C10 as stated: after an inner scope exits inside an active outer scope,
\* the chain is the singleton chain of the outer scope's recorder; after the
\* outer scope exits, the chain is the chain before it was entered.
C10_Original ==
  /\ (last.op = "exit" /\ last.depth > 1) =>
       processors = <<Recorder(Top(last.t).cap)>>
  /\ (last.op = "exit" /\ last.depth = 1 /\ last.inner # 0) =>
       processors = last.pre

\* C10 amended: the same, when the body of the outer scope has not itself
\* replaced the chain; then a later log call of the outer body is recorded
\* in the outer sequence and not in the inner one.
C10_NestedLifo ==
  /\ (last.op = "exit" /\ last.depth > 1 /\ last.clean) =>
       processors = <<Recorder(Top(last.t).cap)>>
  /\ (last.op = "log" /\ stack[last.t] # <<>>) =>
       ((Top(last.t).inner # 0 /\ ~Top(last.t).reconf) =>
          /\ last.obj \in Range(entries[Top(last.t).cap])
          /\ last.obj \notin Range(entries[Top(last.t).inner]))
  /\ (last.op = "exit" /\ last.depth = 1 /\ last.inner # 0) =>
       processors = last.pre

C10_Witness ==
  /\ last.op = "log"
  /\ stack[1] # <<>>
  /\ Top(1).inner # 0
  /\ ~Top(1).reconf
  /\ entries[Top(1).inner] # <<>>
  /\ last.obj \in Range(entries[Top(1).cap])

====
